---- MODULE Spec2Model ----
(***************************************************************************)
(* A model of cplInfo/cplInfo.py: the construction of a CPLInfo from a     *)
(* parsed Composition Playlist, the aggregation of each virtual track's    *)
(* resources (duration, fingerprint, resource count) and the export of the *)
(* result (to_dict, get_cpl_summary).                                      *)
(*                                                                         *)
(* An optional XML element is a sequence of length at most one: <<>> when  *)
(* the element is absent (findtext returns None), <<v>> when it is there.  *)
(* A Fraction is a pair <<numerator, denominator>> in lowest terms with a  *)
(* positive denominator.  Byte streams and Python strings are TLA+ strings.*)
(***************************************************************************)
EXTENDS Integers, Sequences, FiniteSets, TLC

VARIABLES
    doc,             \* the parsed document handed to CPLInfo(cpl_element)
    pc,              \* "new", "sequences", "done" or "raised"
    error,           \* the exception that ended the constructor, "none" otherwise
    namespace,       \* CPLInfo.namespace
    content_title,   \* CPLInfo.content_title
    edit_rate,       \* CPLInfo.edit_rate (Absent until it is assigned)
    index,           \* position of `for sequence in sequence_list`
    virtual_tracks,  \* CPLInfo.virtual_tracks
    result           \* the value returned by the last export call, <<>> if none

vars == <<doc, pc, error, namespace, content_title, edit_rate, index, virtual_tracks, result>>

-----------------------------------------------------------------------------
(* Bounds of the model.                                                    *)

\* Largest number of sequence elements in the first segment of a document.
MaxSequences == 2
\* Largest number of Resource elements in a document of the aggregation family.
MaxResources == 2

-----------------------------------------------------------------------------
(* Optional values.                                                        *)

Absent == <<>>
Some(v) == <<v>>
IsAbsent(o) == o = <<>>
Val(o) == o[1]

-----------------------------------------------------------------------------
(* fractions.Fraction                                                      *)

Abs(n) == IF n < 0 THEN -n ELSE n

RECURSIVE GCD(_, _)
GCD(a, b) == IF b = 0 THEN a ELSE GCD(b, a % b)

\* Fraction(n, d) for d # 0: lowest terms, positive denominator.
Fraction(n, d) ==
    LET g == GCD(Abs(n), Abs(d))
        s == IF d < 0 THEN -1 ELSE 1
    IN  <<s * (n \div g), s * (d \div g)>>

FractionIsZero(f) == f[1] = 0
FractionAdd(f, g) == Fraction(f[1] * g[2] + g[1] * f[2], f[2] * g[2])
FractionMulInt(f, k) == Fraction(f[1] * k, f[2])
\* k / f for an int k and a non-zero Fraction f.
IntDivFraction(k, f) == Fraction(k * f[2], f[1])
FractionLess(f, g) == f[1] * g[2] < g[1] * f[2]

\* int(f * 1000): Python's int() truncates toward zero.
FractionToMillis(f) ==
    LET n == f[1] * 1000
    IN  IF n >= 0 THEN n \div f[2] ELSE -((-n) \div f[2])

-----------------------------------------------------------------------------
(* str() of the values fed to the hash and of a timedelta.                 *)

DigitChar(d) == <<"0", "1", "2", "3", "4", "5", "6", "7", "8", "9">>[d + 1]

RECURSIVE NatChars(_)
NatChars(n) == IF n < 10 THEN <<DigitChar(n)>>
               ELSE NatChars(n \div 10) \o <<DigitChar(n % 10)>>

IntChars(n) == IF n < 0 THEN <<"-">> \o NatChars(-n) ELSE NatChars(n)

RECURSIVE Join(_)
Join(chars) == IF chars = <<>> THEN "" ELSE Head(chars) \o Join(Tail(chars))

\* str(int)
IntStr(n) == Join(IntChars(n))

\* str(Fraction): "n" when the denominator is 1, "n/d" otherwise.
FractionStr(f) ==
    IF f[2] = 1 THEN IntStr(f[1]) ELSE IntStr(f[1]) \o "/" \o IntStr(f[2])

\* str(findtext(...)): the text, or "None" when the element is absent.
OptionalStr(o) == IF IsAbsent(o) THEN "None" ELSE Val(o)

\* n as exactly `width` digits, zero padded.
RECURSIVE PaddedChars(_, _)
PaddedChars(n, width) ==
    IF width = 0 THEN <<>>
    ELSE PaddedChars(n \div 10, width - 1) \o <<DigitChar(n % 10)>>

\* str(datetime.timedelta(milliseconds = ms)) for ms >= 0, as characters:
\* "[D day[s], ]H:MM:SS" and, only when the microseconds are not zero,
\* ".uuuuuu".
TimedeltaChars(ms) ==
    LET days    == ms \div 86400000
        rest    == ms % 86400000
        seconds == rest \div 1000
        micros  == (rest % 1000) * 1000
        hh      == seconds \div 3600
        mm      == (seconds % 3600) \div 60
        ss      == seconds % 60
        dayPart == IF days = 0 THEN <<>>
                   ELSE NatChars(days) \o <<" ", "d", "a", "y">>
                        \o (IF days = 1 THEN <<>> ELSE <<"s">>) \o <<",", " ">>
        hms     == NatChars(hh) \o <<":">> \o PaddedChars(mm, 2)
                   \o <<":">> \o PaddedChars(ss, 2)
        frac    == IF micros = 0 THEN <<>> ELSE <<".">> \o PaddedChars(micros, 6)
    IN  dayPart \o hms \o frac

\* s[:-3]
DropLast3(chars) == SubSeq(chars, 1, Len(chars) - 3)

\* str(datetime.timedelta(milliseconds=int(duration * 1000)))[:-3]
FormatDuration(duration) ==
    Join(DropLast3(TimedeltaChars(FractionToMillis(duration))))

-----------------------------------------------------------------------------
(* Module constants and the document navigator.                            *)

COMPATIBLE_CORE_NS ==
    { "http://www.smpte-ra.org/schemas/2067-2/2013",
      "http://www.smpte-ra.org/schemas/2067-2/2016",
      "http://www.smpte-ra.org/ns/2067-2/2020" }

RECURSIVE Flatten(_)
Flatten(lists) == IF lists = <<>> THEN <<>> ELSE Head(lists) \o Flatten(Tail(lists))

\* Every sequence element of every segment, in document order.
AllSequences(d) == Flatten(d.segments)

\* MatchedResources with the search kept to the first segment.
MatchedResources_FirstSegmentOnly(d, track_id) ==
    LET first == IF d.segments = <<>> THEN <<>> ELSE d.segments[1]
    IN  Flatten([k \in 1..Len(first) |->
                   IF ~IsAbsent(first[k].track_id) /\ Val(first[k].track_id) = track_id
                   THEN first[k].resources ELSE <<>>])

\* The resources selected for a track:
\* findall("./SegmentList/Segment/SequenceList/*[TrackId='<id>']/ResourceList/Resource")
\* every Resource of every sequence element, of any segment, whose TrackId
\* text equals track_id, in document order.
MatchedResources(d, track_id) ==
    LET all == AllSequences(d)
    IN  Flatten([k \in 1..Len(all) |->
                   IF ~IsAbsent(all[k].track_id) /\ Val(all[k].track_id) = track_id
                   THEN all[k].resources ELSE <<>>])

\* findtext(".//cpl:EditRate") on the root: the first EditRate element of the
\* document, which is the playlist's own when it has one and otherwise the
\* first one found in a Resource.
RECURSIVE FirstPresent(_)
FirstPresent(opts) ==
    IF opts = <<>> THEN Absent
    ELSE IF ~IsAbsent(Head(opts)) THEN Head(opts) ELSE FirstPresent(Tail(opts))

RootEditRateText(d) ==
    LET resources == Flatten([k \in 1..Len(AllSequences(d)) |-> AllSequences(d)[k].resources])
    IN  FirstPresent(<<d.edit_rate>> \o [k \in 1..Len(resources) |-> resources[k].EditRate])

\* find("./SegmentList/Segment/SequenceList"): the first segment's list
\* (Absent when the playlist has no segment).
FirstSequenceList(d) == IF d.segments = <<>> THEN Absent ELSE Some(d.segments[1])

\* DescriptorFound with the Id predicate dropped from the path: any
\* EssenceDescriptor of the playlist matches.
DescriptorFound_AnyDescriptor(d, source_encoding) == d.descriptors # {}

\* find(".//EssenceDescriptor[Id='<source_encoding>']") is not None
DescriptorFound(d, source_encoding) == source_encoding \in d.descriptors

\* The class chosen for a sequence's local name, Absent for any other name.
VtClassOf(sequence_name) ==
    IF sequence_name = "MainImageSequence" THEN Some("MainImageVirtualTrack")
    ELSE IF sequence_name = "MainAudioSequence" THEN Some("MainAudioVirtualTrack")
    ELSE IF sequence_name = "SubtitlesSequence" THEN Some("SubtitlesVirtualTrack")
    ELSE Absent

-----------------------------------------------------------------------------
(* The resource aggregator: the body of `for resource in resources`.       *)

\* cpl_rational_to_fraction(findtext(".//cpl:EditRate")) or self.edit_rate
\* defined when the element is present with a non-zero denominator.
ResourceEditRate(resource, playlist_edit_rate) ==
    LET own == Fraction(Val(resource.EditRate)[1], Val(resource.EditRate)[2])
    IN  IF FractionIsZero(own) THEN playlist_edit_rate ELSE own

\* edit_rate * int(findtext(".//cpl:EntryPoint") or 0)
EntryPointOf(resource, res_edit_rate) ==
    FractionMulInt(res_edit_rate,
                   IF IsAbsent(resource.EntryPoint) THEN 0 ELSE Val(resource.EntryPoint))

\* DurationText with the two elements in the other order of preference.
DurationText_IntrinsicFirst(resource) ==
    IF ~IsAbsent(resource.IntrinsicDuration) THEN resource.IntrinsicDuration
    ELSE resource.SourceDuration

\* findtext(".//cpl:SourceDuration") or findtext(".//cpl:IntrinsicDuration")
DurationText(resource) ==
    IF ~IsAbsent(resource.SourceDuration) THEN resource.SourceDuration
    ELSE resource.IntrinsicDuration

\* int(findtext(".//cpl:RepeatCount") or 1)
RepeatCountOf(resource) ==
    IF IsAbsent(resource.RepeatCount) THEN 1 ELSE Val(resource.RepeatCount)

\* SkipResource with the test for zero dropped: every resource is aggregated.
SkipResource_Never(resource_duration) == FALSE

\* if resource_duration == 0: continue
SkipResource(resource_duration) == FractionIsZero(resource_duration)

\* The four fingerprint.update calls.
FingerprintUpdate(stream, entry_point, resource_duration, repeat_count, trackfile_id) ==
    stream \o FractionStr(entry_point) \o FractionStr(resource_duration)
           \o IntStr(repeat_count) \o OptionalStr(trackfile_id)

\* hashlib.sha1().hexdigest(), taken as collision-free: the digest stands
\* for the byte stream that was fed.
HexDigest(stream) == <<"sha1", stream>>

EmptyAccumulator == [error |-> "none", total_duration |-> <<0, 1>>, stream |-> ""]

\* One iteration of the resource loop.  An exception leaves the loop (and
\* the constructor): error names it.
AggregateResource(acc, resource, playlist_edit_rate) ==
    IF acc.error # "none" THEN acc
    ELSE IF IsAbsent(resource.EditRate)
    THEN [acc EXCEPT !.error = "AttributeError"]
    ELSE IF Val(resource.EditRate)[2] = 0
    THEN [acc EXCEPT !.error = "ZeroDivisionError"]
    ELSE LET res_edit_rate == ResourceEditRate(resource, playlist_edit_rate)
             entry_point   == EntryPointOf(resource, res_edit_rate)
         IN  IF IsAbsent(DurationText(resource))
             THEN [acc EXCEPT !.error = "TypeError"]
             ELSE IF FractionIsZero(res_edit_rate)
             THEN [acc EXCEPT !.error = "ZeroDivisionError"]
             ELSE LET resource_duration ==
                          IntDivFraction(Val(DurationText(resource)), res_edit_rate)
                  IN  IF SkipResource(resource_duration) THEN acc
                      ELSE [acc EXCEPT
                              !.total_duration = FractionAdd(@, resource_duration),
                              !.stream = FingerprintUpdate(@, entry_point, resource_duration,
                                                           RepeatCountOf(resource),
                                                           resource.TrackFileId)]

RECURSIVE AggregateFrom(_, _, _)
AggregateFrom(acc, resources, playlist_edit_rate) ==
    IF resources = <<>> THEN acc
    ELSE AggregateFrom(AggregateResource(acc, Head(resources), playlist_edit_rate),
                       Tail(resources), playlist_edit_rate)

\* The whole loop over the resources of one track.
Aggregate(resources, playlist_edit_rate) ==
    AggregateFrom(EmptyAccumulator, resources, playlist_edit_rate)

\* The resource_count argument of the track's constructor: len(resources).
ResourceCount(resources) == Len(resources)

\* NewVirtualTrack with the TrackId fed to the hash after the resources.
NewVirtualTrack_HashesTrackId(vt_class, descriptor, acc, track_id, resources) ==
    [ vt_class       |-> vt_class,
      descriptor     |-> descriptor,
      fingerprint    |-> HexDigest(acc.stream \o track_id),
      track_id       |-> track_id,
      duration       |-> acc.total_duration,
      resource_count |-> Len(resources) ]

\* vt_class(essence_descriptor, fingerprint.hexdigest(), track_id, total_duration,
\*          len(resources))
NewVirtualTrack(vt_class, descriptor, acc, track_id, resources) ==
    [ vt_class       |-> vt_class,
      descriptor     |-> descriptor,
      fingerprint    |-> HexDigest(acc.stream),
      track_id       |-> track_id,
      duration       |-> acc.total_duration,
      resource_count |-> ResourceCount(resources) ]

-----------------------------------------------------------------------------
(* The documents the constructor is run on.                                *)

Resource(er, ep, sd, idur, rc, tf) ==
    [ EditRate |-> er, EntryPoint |-> ep, SourceDuration |-> sd,
      IntrinsicDuration |-> idur, RepeatCount |-> rc, TrackFileId |-> tf ]

Sequence(tid, ns, name, enc, resources) ==
    [ track_id |-> tid, ns |-> ns, name |-> name, source_encoding |-> enc,
      resources |-> resources ]

Document(title, er, segments) ==
    [ namespace   |-> "http://www.smpte-ra.org/schemas/2067-3/2016",
      title       |-> title,
      edit_rate   |-> er,
      descriptors |-> {"d1", "d2"},
      segments    |-> segments ]

\* Sequences over S of length at most n.
SeqUpTo(S, n) == UNION { [1..k -> S] : k \in 0..n }

\* A resource of one frame at edit rate 1/1 from file "a".
BaseResource == Resource(Some(<<1, 1>>), Absent, Some(1), Absent, Absent, Some("a"))

\* BaseResource with one element, or its pair of duration elements, varied.
ResourcePool ==
    {BaseResource}
    \cup { [BaseResource EXCEPT !.EditRate = er] :
             er \in {Absent, Some(<<0, 1>>), Some(<<3, 1>>)} }
    \cup { [BaseResource EXCEPT !.EntryPoint = Some(1)] }
    \cup { [BaseResource EXCEPT !.SourceDuration = d[1], !.IntrinsicDuration = d[2]] :
             d \in { <<Absent, Absent>>, <<Absent, Some(1)>>, <<Some(0), Absent>>,
                     <<Some(0), Some(1)>>, <<Some(11), Absent>> } }
    \cup { [BaseResource EXCEPT !.RepeatCount = rc] : rc \in {Some(1), Some(11)} }
    \cup { [BaseResource EXCEPT !.TrackFileId = tf] : tf \in {Absent, Some("b")} }

PlaylistEditRates == {Absent, Some(<<0, 1>>), Some(<<2, 1>>)}

ImageHeader == Sequence(Some("t1"), "http://www.smpte-ra.org/schemas/2067-2/2016",
                        "MainImageSequence", Some("d1"), <<>>)
AudioHeader == Sequence(Some("t2"), "http://www.smpte-ra.org/schemas/2067-2/2013",
                        "MainAudioSequence", Some("d2"), <<>>)
SubtitlesHeader == Sequence(Some("t1"), "http://www.smpte-ra.org/ns/2067-2/2020",
                            "SubtitlesSequence", Some("d1"), <<>>)

WellFormedHeaders == {ImageHeader, AudioHeader, SubtitlesHeader}

\* One sequence element for each way of failing a check of the loop body.
RejectedHeaders ==
    { [AudioHeader EXCEPT !.track_id = Absent],
      [ImageHeader EXCEPT !.ns = "http://www.smpte-ra.org/schemas/2067-2/2099"],
      [ImageHeader EXCEPT !.name = "MarkerSequence"],
      [SubtitlesHeader EXCEPT !.source_encoding = Absent],
      [ImageHeader EXCEPT !.source_encoding = Some("d9")] }

WithResources(headers) ==
    { [h EXCEPT !.resources = rs] : h \in headers, rs \in { <<>>, <<BaseResource>> } }

\* A later segment repeating the image track.
SecondSegment ==
    << [ImageHeader EXCEPT !.resources = << [BaseResource EXCEPT !.TrackFileId = Some("b")] >>] >>

\* Playlists of one segment of up to MaxSequences sequence elements,
\* well-formed or not; playlists of two segments; a playlist with no segment.
AssemblyDocs ==
    { Document(Some("A"), Some(<<1, 1>>), <<first>>) :
        first \in SeqUpTo(WithResources(WellFormedHeaders \cup RejectedHeaders), MaxSequences) }
    \cup { Document(Some("A"), Some(<<1, 1>>), <<first, SecondSegment>>) :
             first \in SeqUpTo(WithResources(WellFormedHeaders), MaxSequences) }
    \cup { Document(Some("A"), Some(<<1, 1>>), <<>>) }

\* Playlists of an image and an audio sequence whose resource lists are drawn
\* from the pool, with at most MaxResources resources in all and at most one
\* in the audio sequence.
AggregationDocs ==
    { Document(Some("A"), er,
               << << [ImageHeader EXCEPT !.resources = pair[1]],
                     [AudioHeader EXCEPT !.resources = pair[2]] >> >>) :
        er \in PlaylistEditRates,
        pair \in UNION { [1..kk[1] -> ResourcePool] \X [1..kk[2] -> ResourcePool] :
                           kk \in { c \in (0..MaxResources) \X (0..1) :
                                      c[1] + c[2] <= MaxResources } } }

\* The scenario playlist of the specification: one image sequence of two
\* resources of 24 and 48 frames at edit rate 24/1, under either title.
ScenarioResource(frames, tf) ==
    Resource(Some(<<24, 1>>), Some(0), Some(frames), Some(frames), Some(1), Some(tf))

ScenarioDocs ==
    { Document(title, Some(<<24, 1>>),
               << << [ImageHeader EXCEPT !.resources =
                        << ScenarioResource(24, "a"), ScenarioResource(48, "b") >>] >> >>) :
        title \in {Absent, Some("A"), Some("B")} }

Documents == AssemblyDocs \cup AggregationDocs \cup ScenarioDocs

-----------------------------------------------------------------------------
(* CPLInfo.__init__, one step per sequence element.                        *)

Init ==
    /\ doc \in Documents
    /\ pc = "new"
    /\ error = "none"
    /\ namespace = Absent
    /\ content_title = Absent
    /\ edit_rate = Absent
    /\ index = 0
    /\ virtual_tracks = <<>>
    /\ result = <<>>

Raise(e) ==
    /\ pc' = "raised"
    /\ error' = e

\* Lines 178-194 when nothing raises: namespace, content_title, edit_rate,
\* the empty track list and the sequence list.
ParseRoot ==
    /\ pc = "new"
    /\ ~IsAbsent(RootEditRateText(doc))
    /\ Val(RootEditRateText(doc))[2] # 0
    /\ ~IsAbsent(FirstSequenceList(doc))
    /\ namespace' = Some(doc.namespace)
    /\ content_title' = doc.title
    /\ edit_rate' = Some(Fraction(Val(RootEditRateText(doc))[1], Val(RootEditRateText(doc))[2]))
    /\ index' = 1
    /\ pc' = "sequences"
    /\ UNCHANGED <<doc, error, virtual_tracks, result>>

\* cpl_rational_to_fraction(None) raises AttributeError and a zero denominator
\* ZeroDivisionError; nothing after line 190 runs.
ParseRootRaisesOnEditRate ==
    /\ pc = "new"
    /\ \/ IsAbsent(RootEditRateText(doc)) /\ Raise("AttributeError")
       \/ /\ ~IsAbsent(RootEditRateText(doc))
          /\ Val(RootEditRateText(doc))[2] = 0
          /\ Raise("ZeroDivisionError")
    /\ namespace' = Some(doc.namespace)
    /\ content_title' = doc.title
    /\ UNCHANGED <<doc, edit_rate, index, virtual_tracks, result>>

\* `for sequence in sequence_list` with sequence_list None raises TypeError.
ParseRootRaisesOnSequenceList ==
    /\ pc = "new"
    /\ ~IsAbsent(RootEditRateText(doc))
    /\ Val(RootEditRateText(doc))[2] # 0
    /\ IsAbsent(FirstSequenceList(doc))
    /\ namespace' = Some(doc.namespace)
    /\ content_title' = doc.title
    /\ edit_rate' = Some(Fraction(Val(RootEditRateText(doc))[1], Val(RootEditRateText(doc))[2]))
    /\ Raise("TypeError")
    /\ UNCHANGED <<doc, index, virtual_tracks, result>>

sequence_list == Val(FirstSequenceList(doc))
InLoop == pc = "sequences" /\ index <= Len(sequence_list)
sequence == sequence_list[index]

\* The five checks of the loop body, in the order the code makes them.
HasTrackId(s) == ~IsAbsent(s.track_id)
KnownNamespace(s) == s.ns \in COMPATIBLE_CORE_NS
KnownKind(s) == ~IsAbsent(VtClassOf(s.name))
HasSourceEncoding(s) == ~IsAbsent(s.source_encoding)
HasDescriptor(d, s) == DescriptorFound(d, Val(s.source_encoding))

Continue ==
    /\ index' = index + 1
    /\ UNCHANGED <<doc, pc, error, namespace, content_title, edit_rate, virtual_tracks, result>>

RejectMissingTrackId ==
    /\ InLoop
    /\ ~HasTrackId(sequence)
    /\ Continue

RejectNamespace ==
    /\ InLoop
    /\ HasTrackId(sequence)
    /\ ~KnownNamespace(sequence)
    /\ Continue

RejectKind ==
    /\ InLoop
    /\ HasTrackId(sequence) /\ KnownNamespace(sequence)
    /\ ~KnownKind(sequence)
    /\ Continue

RejectSourceEncoding ==
    /\ InLoop
    /\ HasTrackId(sequence) /\ KnownNamespace(sequence) /\ KnownKind(sequence)
    /\ ~HasSourceEncoding(sequence)
    /\ Continue

RejectDescriptor ==
    /\ InLoop
    /\ HasTrackId(sequence) /\ KnownNamespace(sequence) /\ KnownKind(sequence)
    /\ HasSourceEncoding(sequence)
    /\ ~HasDescriptor(doc, sequence)
    /\ Continue

Accepted ==
    /\ InLoop
    /\ HasTrackId(sequence) /\ KnownNamespace(sequence) /\ KnownKind(sequence)
    /\ HasSourceEncoding(sequence) /\ HasDescriptor(doc, sequence)

\* Lines 232-264: the resources of the track are aggregated and the track
\* is appended.
AppendVirtualTrack ==
    /\ Accepted
    /\ LET track_id  == Val(sequence.track_id)
           resources == MatchedResources(doc, track_id)
           acc       == Aggregate(resources, Val(edit_rate))
       IN  /\ acc.error = "none"
           /\ virtual_tracks' = Append(virtual_tracks,
                  NewVirtualTrack(Val(VtClassOf(sequence.name)), Val(sequence.source_encoding),
                                  acc, track_id, resources))
    /\ index' = index + 1
    /\ UNCHANGED <<doc, pc, error, namespace, content_title, edit_rate, result>>

\* An exception in the resource loop leaves the constructor.
AggregateRaises ==
    /\ Accepted
    /\ LET acc == Aggregate(MatchedResources(doc, Val(sequence.track_id)), Val(edit_rate))
       IN  /\ acc.error # "none"
           /\ Raise(acc.error)
    /\ UNCHANGED <<doc, namespace, content_title, edit_rate, index, virtual_tracks, result>>

\* The loop is exhausted: the constructor returns.
Return ==
    /\ pc = "sequences"
    /\ index > Len(sequence_list)
    /\ pc' = "done"
    /\ UNCHANGED <<doc, error, namespace, content_title, edit_rate, index, virtual_tracks, result>>

-----------------------------------------------------------------------------
(* The export of a constructed CPLInfo.                                    *)

KindOf(vt_class) ==
    IF vt_class = "MainImageVirtualTrack" THEN "main_image"
    ELSE IF vt_class = "MainAudioVirtualTrack" THEN "main_audio"
    ELSE "main_subtitle"

\* <track>.to_dict(), the essence_info left to the descriptor's id.
TrackToDict(vt) ==
    [ kind             |-> KindOf(vt.vt_class),
      fingerprint      |-> vt.fingerprint,
      virtual_track_id |-> vt.track_id,
      resource_count   |-> vt.resource_count,
      duration         |-> FormatDuration(vt.duration),
      essence_info     |-> vt.descriptor ]

\* CPLInfo.to_dict()
ToDict ==
    /\ pc = "done"
    /\ result' = << "to_dict",
                    [ namespace      |-> namespace,
                      content_title  |-> content_title,
                      virtual_tracks |-> [k \in 1..Len(virtual_tracks) |->
                                            TrackToDict(virtual_tracks[k])] ] >>
    /\ UNCHANGED <<doc, pc, error, namespace, content_title, edit_rate, index, virtual_tracks>>

\* TracksOfClass with the isinstance test dropped: every track is returned.
TracksOfClass_Unfiltered(tracks, vt_class) == tracks

\* [vt for vt in cpl_info.virtual_tracks if isinstance(vt, <class>)]
TracksOfClass(tracks, vt_class) == SelectSeq(tracks, LAMBDA vt : vt.vt_class = vt_class)

get_main_image_tracks == TracksOfClass(virtual_tracks, "MainImageVirtualTrack")
get_main_audio_tracks == TracksOfClass(virtual_tracks, "MainAudioVirtualTrack")
get_subtitle_tracks == TracksOfClass(virtual_tracks, "SubtitlesVirtualTrack")

\* max(all_durations) if all_durations else 0
RECURSIVE MaxDuration(_)
MaxDuration(tracks) ==
    IF tracks = <<>> THEN <<0, 1>>
    ELSE IF Len(tracks) = 1 THEN Head(tracks).duration
    ELSE LET m == MaxDuration(Tail(tracks))
         IN  IF FractionLess(Head(tracks).duration, m) THEN m ELSE Head(tracks).duration

\* get_cpl_summary(cpl_info)
GetCplSummary ==
    /\ pc = "done"
    /\ result' = << "summary",
                    [ content_title |-> content_title,
                      namespace     |-> namespace,
                      edit_rate     |-> FractionStr(Val(edit_rate)),
                      duration      |-> FormatDuration(MaxDuration(virtual_tracks)),
                      track_count   |-> [ image    |-> Len(get_main_image_tracks),
                                          audio    |-> Len(get_main_audio_tracks),
                                          subtitle |-> Len(get_subtitle_tracks),
                                          total    |-> Len(virtual_tracks) ] ] >>
    /\ UNCHANGED <<doc, pc, error, namespace, content_title, edit_rate, index, virtual_tracks>>

Next ==
    \/ ParseRoot
    \/ ParseRootRaisesOnEditRate
    \/ ParseRootRaisesOnSequenceList
    \/ RejectMissingTrackId
    \/ RejectNamespace
    \/ RejectKind
    \/ RejectSourceEncoding
    \/ RejectDescriptor
    \/ AppendVirtualTrack
    \/ AggregateRaises
    \/ Return
    \/ ToDict
    \/ GetCplSummary

Spec == Init /\ [][Next]_vars

-----------------------------------------------------------------------------
(* What the properties below speak of.  These definitions restate the      *)
(* specification's terms from the parsed document; the constructor's own   *)
(* operators above are not used to compute an expected value.              *)

Tracks == 1..Len(virtual_tracks)

\* The constructor has returned and nothing was exported yet.
Constructed == pc = "done" /\ result = <<>>

\* The resources of the k-th emitted track.
ResourcesOfTrack(k) == MatchedResources(doc, virtual_tracks[k].track_id)

\* The edit rate in force for a resource: its own, the playlist's when its
\* own is zero.
RateInForce(r, playlist_rate) ==
    IF Val(r.EditRate)[1] = 0 THEN playlist_rate
    ELSE Fraction(Val(r.EditRate)[1], Val(r.EditRate)[2])

HasDuration(r) == r.SourceDuration # <<>> \/ r.IntrinsicDuration # <<>>

\* The resource can be aggregated without an exception.
Processable(r, playlist_rate) ==
    /\ r.EditRate # <<>>
    /\ Val(r.EditRate)[2] # 0
    /\ HasDuration(r)
    /\ RateInForce(r, playlist_rate)[1] # 0

\* duration_int: SourceDuration if present else IntrinsicDuration.
DurationInt(r) ==
    IF r.SourceDuration # <<>> THEN r.SourceDuration[1] ELSE r.IntrinsicDuration[1]

\* The resource's computed duration, duration_int / edit_rate.
ComputedDuration(r, playlist_rate) ==
    LET rate == RateInForce(r, playlist_rate)
    IN  Fraction(DurationInt(r) * rate[2], rate[1])

ZeroDuration(r, playlist_rate) == ComputedDuration(r, playlist_rate)[1] = 0

\* The resource as the data model has it: edit rate, entry point, duration,
\* repeat count, track file id.
ResourceTuple(r, playlist_rate) ==
    LET rate == RateInForce(r, playlist_rate)
    IN  << rate,
           Fraction(rate[1] * (IF r.EntryPoint = <<>> THEN 0 ELSE r.EntryPoint[1]), rate[2]),
           ComputedDuration(r, playlist_rate),
           IF r.RepeatCount = <<>> THEN 1 ELSE r.RepeatCount[1],
           r.TrackFileId >>

TupleSequence(resources, playlist_rate) ==
    [k \in 1..Len(resources) |-> ResourceTuple(resources[k], playlist_rate)]

\* The fingerprint the aggregator gives a resource list.
FingerprintOf(resources, playlist_rate) == HexDigest(Aggregate(resources, playlist_rate).stream)

NonZeroRates == { <<1, 1>>, <<2, 1>> }

-----------------------------------------------------------------------------
(* C1                                                                      *)

\* The resource lists over the pool that present, under playlist rate
\* other_rate, the same tuples as `resources` does under playlist_rate.
RECURSIVE SameTupleLists(_, _, _)
SameTupleLists(resources, playlist_rate, other_rate) ==
    IF resources = <<>> THEN { <<>> }
    ELSE { <<r>> \o rest :
             r \in { x \in ResourcePool :
                       /\ Processable(x, other_rate)
                       /\ ResourceTuple(x, other_rate)
                            = ResourceTuple(Head(resources), playlist_rate) },
             rest \in SameTupleLists(Tail(resources), playlist_rate, other_rate) }

\* C1: two tracks whose resource sequences are identical (same edit rates,
\* entry points, durations, repeat counts and track file ids, in the same
\* order) have equal fingerprints: any two tracks of one playlist, whatever
\* their TrackId, sequence kind and essence descriptor, and a track and the
\* one a playlist of any other edit rate, title and element spelling gives
\* for the same tuples.
C1_FingerprintDeterminism ==
    Constructed =>
      \A i \in Tracks :
        /\ \A j \in Tracks :
             TupleSequence(ResourcesOfTrack(i), Val(edit_rate))
                 = TupleSequence(ResourcesOfTrack(j), Val(edit_rate))
               => virtual_tracks[i].fingerprint = virtual_tracks[j].fingerprint
        /\ \A other_rate \in NonZeroRates :
             \A others \in SameTupleLists(ResourcesOfTrack(i), Val(edit_rate), other_rate) :
               FingerprintOf(others, other_rate) = virtual_tracks[i].fingerprint

\* Two tracks of different TrackId, kind and descriptor whose resources are
\* written differently (an explicit RepeatCount of 1 against none) but are
\* the same tuples, of non-zero duration.
C1_Witness ==
    /\ Constructed
    /\ \E i, j \in Tracks :
         /\ virtual_tracks[i].track_id # virtual_tracks[j].track_id
         /\ virtual_tracks[i].vt_class # virtual_tracks[j].vt_class
         /\ virtual_tracks[i].descriptor # virtual_tracks[j].descriptor
         /\ ResourcesOfTrack(i) # ResourcesOfTrack(j)
         /\ ResourcesOfTrack(i) # <<>>
         /\ ~ZeroDuration(ResourcesOfTrack(i)[1], Val(edit_rate))
         /\ TupleSequence(ResourcesOfTrack(i), Val(edit_rate))
              = TupleSequence(ResourcesOfTrack(j), Val(edit_rate))

-----------------------------------------------------------------------------
(* C2                                                                      *)

CountNonZero(resources, playlist_rate) ==
    Cardinality({ k \in 1..Len(resources) : ~ZeroDuration(resources[k], playlist_rate) })

\* C2: the resource_count of every track is the number of its resources
\* whose computed duration is not zero.
C2_ResourceCountExcludesZeroDuration ==
    Constructed =>
      \A i \in Tracks :
        virtual_tracks[i].resource_count
          = CountNonZero(ResourcesOfTrack(i), Val(edit_rate))

-----------------------------------------------------------------------------
(* C3                                                                      *)

\* Resources of computed duration zero, of various entry points, repeat
\* counts, track file ids and spellings of the zero duration.
ZeroBase == Resource(Some(<<1, 1>>), Absent, Some(0), Absent, Absent, Some("a"))

ZeroResources ==
    { ZeroBase,
      [ZeroBase EXCEPT !.EntryPoint = Some(11), !.RepeatCount = Some(11)],
      [ZeroBase EXCEPT !.IntrinsicDuration = Some(5), !.TrackFileId = Absent],
      Resource(Some(<<3, 1>>), Some(1), Absent, Some(0), Some(2), Some("zz")) }

InsertAt(list, p, x) == SubSeq(list, 1, p) \o <<x>> \o SubSeq(list, p + 1, Len(list))

WithoutZeroDuration(resources, playlist_rate) ==
    SelectSeq(resources, LAMBDA r : ~ZeroDuration(r, playlist_rate))

\* C3: a resource of computed duration zero contributes nothing: the track's
\* fingerprint and duration are those of its resource list with the
\* zero-duration resources removed, and inserting a zero-duration resource
\* at any position leaves both unchanged.
C3_ZeroDurationContributesNothing ==
    Constructed =>
      \A i \in Tracks :
        LET resources == ResourcesOfTrack(i)
            rate      == Val(edit_rate)
            kept      == Aggregate(WithoutZeroDuration(resources, rate), rate)
        IN  /\ virtual_tracks[i].fingerprint = HexDigest(kept.stream)
            /\ virtual_tracks[i].duration = kept.total_duration
            /\ \A p \in 0..Len(resources) : \A z \in ZeroResources :
                 LET more == Aggregate(InsertAt(resources, p, z), rate)
                 IN  /\ more.error = "none"
                     /\ HexDigest(more.stream) = virtual_tracks[i].fingerprint
                     /\ more.total_duration = virtual_tracks[i].duration

\* A track aggregated from a zero-duration resource and a resource of
\* non-zero duration.
C3_Witness ==
    /\ Constructed
    /\ \E i \in Tracks :
         /\ \E k \in 1..Len(ResourcesOfTrack(i)) :
              ZeroDuration(ResourcesOfTrack(i)[k], Val(edit_rate))
         /\ \E k \in 1..Len(ResourcesOfTrack(i)) :
              ~ZeroDuration(ResourcesOfTrack(i)[k], Val(edit_rate))

-----------------------------------------------------------------------------
(* C4                                                                      *)

ReplaceAt(list, k, x) == [list EXCEPT ![k] = x]

\* The resource with one of its entry point, duration, repeat count or track
\* file id given another value, the duration staying non-zero.
OneFieldChanged(r, playlist_rate) ==
    { x \in { [r EXCEPT !.EntryPoint = v] : v \in {Absent, Some(1), Some(11)} }
            \cup { [r EXCEPT !.SourceDuration = v] : v \in {Some(1), Some(2), Some(11)} }
            \cup { [r EXCEPT !.RepeatCount = v] : v \in {Absent, Some(2), Some(11)} }
            \cup { [r EXCEPT !.TrackFileId = v] :
                     v \in {Absent, Some("None"), Some("a"), Some("b")} } :
        /\ ResourceTuple(x, playlist_rate) # ResourceTuple(r, playlist_rate)
        /\ ~ZeroDuration(x, playlist_rate) }

\* C4: changing the value of one of the repeat count, entry point, duration
\* or track file id of a resource of non-zero duration changes the track's
\* fingerprint.
C4_FieldChangeChangesFingerprint ==
    Constructed =>
      \A i \in Tracks :
        LET resources == ResourcesOfTrack(i)
            rate      == Val(edit_rate)
        IN  \A k \in 1..Len(resources) :
              ~ZeroDuration(resources[k], rate) =>
                \A x \in OneFieldChanged(resources[k], rate) :
                  FingerprintOf(ReplaceAt(resources, k, x), rate)
                    # virtual_tracks[i].fingerprint

-----------------------------------------------------------------------------
(* C5                                                                      *)

Swap(list, a, b) == [list EXCEPT ![a] = list[b], ![b] = list[a]]

\* The two resources differ in entry point, duration, repeat count or track
\* file id.
DifferInAField(r1, r2, playlist_rate) ==
    \E f \in 2..5 : ResourceTuple(r1, playlist_rate)[f] # ResourceTuple(r2, playlist_rate)[f]

\* C5: swapping two resources of non-zero duration that differ in a field
\* changes the track's fingerprint.
C5_SwapChangesFingerprint ==
    Constructed =>
      \A i \in Tracks :
        LET resources == ResourcesOfTrack(i)
            rate      == Val(edit_rate)
        IN  \A a, b \in 1..Len(resources) :
              ( /\ a < b
                /\ ~ZeroDuration(resources[a], rate)
                /\ ~ZeroDuration(resources[b], rate)
                /\ DifferInAField(resources[a], resources[b], rate) )
              => FingerprintOf(Swap(resources, a, b), rate) # virtual_tracks[i].fingerprint

-----------------------------------------------------------------------------
(* C6                                                                      *)

\* The sequence element passes the five checks.
PassesAllChecks(s) ==
    /\ s.track_id # <<>>
    /\ s.ns \in { "http://www.smpte-ra.org/schemas/2067-2/2013",
                  "http://www.smpte-ra.org/schemas/2067-2/2016",
                  "http://www.smpte-ra.org/ns/2067-2/2020" }
    /\ s.name \in { "MainImageSequence", "MainAudioSequence", "SubtitlesSequence" }
    /\ s.source_encoding # <<>>
    /\ s.source_encoding[1] \in doc.descriptors

ClassForName(name) ==
    CASE name = "MainImageSequence" -> "MainImageVirtualTrack"
      [] name = "MainAudioSequence" -> "MainAudioVirtualTrack"
      [] name = "SubtitlesSequence" -> "SubtitlesVirtualTrack"

\* TrackId, class and descriptor of the tracks due for the sequence elements.
ExpectedTracks(elements) ==
    LET passing == SelectSeq(elements, PassesAllChecks)
    IN  [k \in 1..Len(passing) |->
           << passing[k].track_id[1], ClassForName(passing[k].name),
              passing[k].source_encoding[1] >>]

EmittedTracks ==
    [k \in 1..Len(virtual_tracks) |->
       << virtual_tracks[k].track_id, virtual_tracks[k].vt_class,
          virtual_tracks[k].descriptor >>]

\* C6: when the construction completes, virtual_tracks holds, in document
\* order, exactly one track for each sequence element of the sequence list
\* that passes the five checks; while the loop runs it holds those of the
\* elements already visited, an exception is raised only at an element that
\* passes the checks, and so the number of tracks is at most the number of
\* elements, with equality when every element passes.
C6_SkipAndContinue ==
    /\ pc = "done" =>
         /\ EmittedTracks = ExpectedTracks(doc.segments[1])
         /\ Len(virtual_tracks) <= Len(doc.segments[1])
         /\ (\A k \in 1..Len(doc.segments[1]) : PassesAllChecks(doc.segments[1][k]))
              => Len(virtual_tracks) = Len(doc.segments[1])
    /\ pc = "sequences" =>
         EmittedTracks = ExpectedTracks(SubSeq(doc.segments[1], 1, index - 1))
    /\ (pc = "raised" /\ index >= 1) => PassesAllChecks(doc.segments[1][index])

\* A completed construction in which an element that fails a check is
\* followed by one that passes and has its track.
C6_Witness ==
    /\ pc = "done"
    /\ Len(doc.segments[1]) = 2
    /\ ~PassesAllChecks(doc.segments[1][1])
    /\ PassesAllChecks(doc.segments[1][2])
    /\ Len(virtual_tracks) = 1

-----------------------------------------------------------------------------
(* C7                                                                      *)

\* H:MM:SS.mmm of a duration truncated to whole milliseconds.
HMMSSmmm(duration) ==
    LET ms == (duration[1] * 1000) \div duration[2]
        seconds == ms \div 1000
    IN  Join(NatChars(seconds \div 3600) \o <<":">>
             \o PaddedChars((seconds % 3600) \div 60, 2) \o <<":">>
             \o PaddedChars(seconds % 60, 2) \o <<".">>
             \o PaddedChars(ms % 1000, 3))

\* C7: the exported duration of every track, and of the summary, is the
\* duration as H:MM:SS.mmm truncated to milliseconds; the scenario playlist
\* exports "0:00:03.000" with resource_count 2.
C7_ExportedDurationFormat ==
    /\ (result # <<>> /\ result[1] = "to_dict") =>
         /\ \A k \in Tracks :
              result[2].virtual_tracks[k].duration = HMMSSmmm(virtual_tracks[k].duration)
         /\ doc \in ScenarioDocs =>
              /\ Len(result[2].virtual_tracks) = 1
              /\ result[2].virtual_tracks[1].duration = "0:00:03.000"
              /\ result[2].virtual_tracks[1].resource_count = 2
    /\ (result # <<>> /\ result[1] = "summary") =>
         result[2].duration = HMMSSmmm(MaxDuration(virtual_tracks))

-----------------------------------------------------------------------------
(* C8                                                                      *)

RECURSIVE SumOfDurations(_, _)
SumOfDurations(resources, playlist_rate) ==
    IF resources = <<>> THEN <<0, 1>>
    ELSE LET d    == ComputedDuration(Head(resources), playlist_rate)
             rest == SumOfDurations(Tail(resources), playlist_rate)
         IN  IF d[1] = 0 THEN rest
             ELSE Fraction(d[1] * rest[2] + rest[1] * d[2], d[2] * rest[2])

\* C8: the duration of every track is the exact sum, over its resources of
\* non-zero duration, of duration_int / edit_rate, with duration_int the
\* SourceDuration if present and the IntrinsicDuration otherwise; repeat
\* counts and entry points play no part.
C8_DurationAdditivity ==
    Constructed =>
      \A i \in Tracks :
        virtual_tracks[i].duration = SumOfDurations(ResourcesOfTrack(i), Val(edit_rate))

\* A track of two resources of non-zero duration, one repeated and one
\* entered after its first frame.
C8_Witness ==
    /\ Constructed
    /\ \E i \in Tracks :
         LET resources == ResourcesOfTrack(i)
         IN  /\ Len(resources) = 2
             /\ \A k \in 1..2 : ~ZeroDuration(resources[k], Val(edit_rate))
             /\ \E k \in 1..2 : resources[k].RepeatCount = Some(11)
             /\ \E k \in 1..2 : resources[k].EntryPoint = Some(1)
             /\ virtual_tracks[i].duration = <<2, 1>>

-----------------------------------------------------------------------------
(* C9                                                                      *)

\* C9: a resource with neither SourceDuration nor IntrinsicDuration is
\* skipped and the parse does not raise for it: when the resource loop
\* raises, it raises also with those resources taken out.
C9_MissingDurationIsSkipped ==
    (pc = "raised" /\ index >= 1) =>
      Aggregate(SelectSeq(MatchedResources(doc, doc.segments[1][index].track_id[1]), HasDuration),
                Val(edit_rate)).error # "none"

-----------------------------------------------------------------------------
(* C10                                                                     *)

\* C10: a playlist whose EditRate is zero is not constructed: every
\* constructed CPLInfo has a non-zero edit_rate.
C10_EditRateRequiredNonZero ==
    pc = "done" => Val(edit_rate) # <<0, 1>>

-----------------------------------------------------------------------------
(* C11                                                                     *)

TrackClasses == { "MainImageVirtualTrack", "MainAudioVirtualTrack", "SubtitlesVirtualTrack" }

\* sub is an order-preserving sublist of list.
RECURSIVE IsSublist(_, _)
IsSublist(sub, list) ==
    IF sub = <<>> THEN TRUE
    ELSE IF list = <<>> THEN FALSE
    ELSE IF Head(sub) = Head(list) THEN IsSublist(Tail(sub), Tail(list))
    ELSE IsSublist(sub, Tail(list))

\* The number of tracks of a class.
CountOfClass(c) == Cardinality({ k \in Tracks : virtual_tracks[k].vt_class = c })

\* The sequence elements visited so far that pass the five checks.
PassingVisited ==
    SelectSeq(SubSeq(doc.segments[1], 1, IF pc = "done" THEN Len(doc.segments[1]) ELSE index - 1),
              PassesAllChecks)

\* The list a getter returns holds tracks of class c only, all of them, in
\* the order of virtual_tracks.
IsClassSublist(got, c) ==
    /\ \A k \in 1..Len(got) : got[k].vt_class = c
    /\ Len(got) = CountOfClass(c)
    /\ IsSublist(got, virtual_tracks)

\* C11: every element of virtual_tracks is of exactly one of the three track
\* classes, the one its sequence's local name selects; the lists returned by
\* get_main_image_tracks, get_main_audio_tracks and get_subtitle_tracks are
\* order-preserving sublists of virtual_tracks with no track in two of them
\* and lengths summing to len(virtual_tracks); and the summary's track_count
\* has image + audio + subtitle = total.
C11_KindPartition ==
    /\ pc \in {"sequences", "done"} =>
         /\ \A k \in Tracks :
              /\ virtual_tracks[k].vt_class \in TrackClasses
              /\ virtual_tracks[k].vt_class = ClassForName(PassingVisited[k].name)
         /\ IsClassSublist(get_main_image_tracks, "MainImageVirtualTrack")
         /\ IsClassSublist(get_main_audio_tracks, "MainAudioVirtualTrack")
         /\ IsClassSublist(get_subtitle_tracks, "SubtitlesVirtualTrack")
         /\ Len(get_main_image_tracks) + Len(get_main_audio_tracks)
              + Len(get_subtitle_tracks) = Len(virtual_tracks)
    /\ (result # <<>> /\ result[1] = "summary") =>
         LET n == result[2].track_count
         IN  /\ n.image + n.audio + n.subtitle = n.total
             /\ n.total = Len(virtual_tracks)
             /\ n.image = CountOfClass("MainImageVirtualTrack")
             /\ n.audio = CountOfClass("MainAudioVirtualTrack")
             /\ n.subtitle = CountOfClass("SubtitlesVirtualTrack")

\* A summary of a playlist of a subtitle track followed by an image track.
C11_Witness ==
    /\ result # <<>>
    /\ result[1] = "summary"
    /\ Len(virtual_tracks) = 2
    /\ virtual_tracks[1].vt_class = "SubtitlesVirtualTrack"
    /\ virtual_tracks[2].vt_class = "MainImageVirtualTrack"
    /\ result[2].track_count.image = 1
    /\ result[2].track_count.subtitle = 1

-----------------------------------------------------------------------------
(* C12                                                                     *)

\* The resources with the playlist edit rate written into each one that has
\* no EditRate of its own.
WithPlaylistRate(resources, playlist_rate) ==
    [k \in 1..Len(resources) |->
       IF resources[k].EditRate = <<>>
       THEN [resources[k] EXCEPT !.EditRate = <<playlist_rate>>]
       ELSE resources[k]]

\* C12: a resource with no EditRate is aggregated at the playlist edit rate
\* and the parse completes without error for it: when the resource loop
\* raises, it raises also with the playlist edit rate given to every resource
\* that has none (in a playlist that has an EditRate of its own).
C12_ResourceEditRateFallback ==
    (pc = "raised" /\ index >= 1 /\ doc.edit_rate # <<>>) =>
      Aggregate(WithPlaylistRate(MatchedResources(doc, doc.segments[1][index].track_id[1]),
                                 Val(edit_rate)),
                Val(edit_rate)).error # "none"

-----------------------------------------------------------------------------
(* C13                                                                     *)

\* The (entry_point, duration, repeat_count, track_file_id) tuples of the
\* resources of non-zero duration, in order.
HashedTuples(resources, playlist_rate) ==
    LET kept == WithoutZeroDuration(resources, playlist_rate)
    IN  [k \in 1..Len(kept) |-> SubSeq(ResourceTuple(kept[k], playlist_rate), 2, 5)]

\* The resource lists over the pool, of any length up to MaxResources, that
\* aggregate without an exception.
ProcessableLists(playlist_rate) ==
    { list \in SeqUpTo(ResourcePool, MaxResources) :
        \A k \in 1..Len(list) : Processable(list[k], playlist_rate) }

\* C13: the fingerprint is injective on resource lists: a resource list
\* whose sequence of non-zero-duration tuples (entry_point, duration,
\* repeat_count, track_file_id) differs in any way from a track's, in several
\* fields at once or in length, has a fingerprint different from that
\* track's.
C13_FingerprintInjective ==
    Constructed =>
      \A i \in Tracks :
        LET rate == Val(edit_rate)
        IN  \A other \in ProcessableLists(rate) :
              HashedTuples(other, rate) # HashedTuples(ResourcesOfTrack(i), rate)
                => FingerprintOf(other, rate) # virtual_tracks[i].fingerprint

-----------------------------------------------------------------------------
(* C14                                                                     *)

\* The resources of the sequence elements of a list that carry the TrackId.
RECURSIVE ResourcesCarrying(_, _)
ResourcesCarrying(elements, tid) ==
    IF elements = <<>> THEN <<>>
    ELSE (IF Head(elements).track_id = <<tid>> THEN Head(elements).resources ELSE <<>>)
         \o ResourcesCarrying(Tail(elements), tid)

\* The resources of every sequence element of every segment that carries
\* the TrackId, in document order.
RECURSIVE ResourcesOfTrackId(_, _)
ResourcesOfTrackId(segments, tid) ==
    IF segments = <<>> THEN <<>>
    ELSE ResourcesCarrying(Head(segments), tid) \o ResourcesOfTrackId(Tail(segments), tid)

\* The sequence elements of all segments that pass the five checks.
RECURSIVE PassingOfAllSegments(_)
PassingOfAllSegments(segments) ==
    IF segments = <<>> THEN <<>>
    ELSE SelectSeq(Head(segments), PassesAllChecks) \o PassingOfAllSegments(Tail(segments))

\* The track's aggregate is that of the resource list.
AggregatedFrom(vt, resources, playlist_rate) ==
    /\ vt.duration = SumOfDurations(resources, playlist_rate)
    /\ vt.resource_count = Len(resources)
    /\ vt.fingerprint = FingerprintOf(resources, playlist_rate)

\* C14 as stated: each emitted track is built from a single sequence
\* element and its duration, resource_count and fingerprint are aggregated
\* from the resources of that sequence element only, also in a playlist of
\* several segments or with two sequence elements of the same TrackId; and
\* every sequence element of every segment is evaluated once.
C14_TrackScopeSingleElement ==
    Constructed =>
      LET passing == PassingOfAllSegments(doc.segments)
      IN  /\ Len(virtual_tracks) = Len(passing)
          /\ \A i \in Tracks :
               /\ virtual_tracks[i].track_id = passing[i].track_id[1]
               /\ AggregatedFrom(virtual_tracks[i], passing[i].resources, Val(edit_rate))

\* C14 amended: each emitted track is built for a single sequence element
\* of the first segment's sequence list, every element of that list being
\* evaluated once and the elements of later segments not at all; the track's
\* duration, resource_count and fingerprint are aggregated from the
\* resources of all the sequence elements, of every segment, that carry the
\* element's TrackId, in document order.
C14_TrackScopeByTrackId ==
    pc \in {"sequences", "done"} =>
      /\ Len(virtual_tracks) = Len(PassingVisited)
      /\ \A i \in Tracks :
           /\ virtual_tracks[i].track_id = PassingVisited[i].track_id[1]
           /\ AggregatedFrom(virtual_tracks[i],
                             ResourcesOfTrackId(doc.segments, virtual_tracks[i].track_id),
                             Val(edit_rate))

\* A constructed playlist of two segments, the first holding two sequence
\* elements of the same TrackId with one resource each and the second a
\* third: two tracks, each aggregated from the three resources.
C14_Witness ==
    /\ Constructed
    /\ Len(doc.segments) = 2
    /\ Len(doc.segments[1]) = 2
    /\ \A k \in 1..2 : Len(doc.segments[1][k].resources) = 1
    /\ Len(virtual_tracks) = 2
    /\ \A i \in Tracks :
         /\ virtual_tracks[i].track_id = "t1"
         /\ virtual_tracks[i].resource_count = 3
         /\ virtual_tracks[i].duration = <<3, 1>>

====
